---- MODULE Spec2Model ----
(***************************************************************************)
(* Model of the document pipeline of aws-cdk-batch-step:                   *)
(*   - the integration harness   src/test/test_pipeline.py                 *)
(*   - the preprocess stage      src/docker/preprocess/preprocess.py       *)
(*   - the GPU stage             src/docker/gpu/process.py                 *)
(*   - the postprocess stage     src/docker/postprocess/postprocess.py     *)
(*                                                                         *)
(* Three specifications share the module.  Spec is one run of the harness  *)
(* main against an object store that the pipeline fills concurrently.      *)
(* StageSpec is a serial sequence of stage runs (the orchestrator starts   *)
(* one stage process at a time) over the shared mount and the buckets.     *)
(* PipeSpec takes one document through the three stage transforms.         *)
(*                                                                         *)
(* Text is a sequence of tokens.  A token is one character ("a", CR, LF)   *)
(* or one literal piece of a format string ("[Preprocessed at").           *)
(* Object keys are sequences of tokens too, "/" being one token.           *)
(***************************************************************************)
EXTENDS Integers, Sequences, FiniteSets, TLC

VARIABLES
    \* ---- harness (test_pipeline.py) ----
    hstate,          \* position of main: CREATING_FIXTURES .. PASSED / FAILED
    exitCode,        \* exit status of the harness process, NoExit while it runs
    num_files,       \* args.num_files
    timeout,         \* args.timeout
    bucket,          \* keys present in the test bucket
    uploaded_count,  \* main's uploaded_count
    posts,           \* number of requests.post calls made
    response,        \* the HTTP outcome of the last requests.post
    execution_arn,   \* value returned by trigger_processing
    now,             \* time.time()
    start_time,      \* wait_for_results' start_time
    listing,         \* the last list_objects_v2 response seen by the harness
    listedPrefix,    \* the Prefix argument of the last list_objects_v2 call
    checks,          \* the polling checks so far: result, keys listed, files counted
    slept,           \* list of the time.sleep arguments so far
    lastListTime,    \* duration of the last list_objects_v2 call of the poll
    wpc,             \* wait_for_results: "idle", "loop" or "returned"
    waitResult,      \* return value of wait_for_results, "none" before
    vidx,            \* verify_results: index of the next entry of Contents
    downloaded,      \* verify_results: <<key, content>> downloaded so far
    verifyResult,    \* return value of verify_results, "none" before
    \* ---- stage processes (preprocess.py, process.py, postprocess.py) ----
    stage,           \* the stage process started last: "none", "preprocess", ...
    spc,             \* its position: "idle", ..., "exited"
    env,             \* the required environment variables of that process
    srcBucket,       \* the source bucket: key -> bytes
    dirs,            \* the directories that exist
    fs,              \* directory -> (file name -> bytes)
    outBucket,       \* the output bucket: key -> bytes
    pending,         \* what the running loop has still to visit
    log,             \* the I/O operations of that process, in order
    stageExit,       \* its exit status, NoExit while it runs
    runs,            \* number of stage processes started so far
    device_name,     \* device_name of the GPU stage's main
    \* ---- one document through the three transforms ----
    doc              \* name, original bytes, bytes now, stages applied

hvars == <<hstate, exitCode, num_files, timeout, bucket, uploaded_count, posts,
           response, execution_arn, now, start_time, listing, listedPrefix,
           checks, slept, lastListTime, wpc, waitResult, vidx, downloaded,
           verifyResult>>

svars == <<stage, spc, env, srcBucket, dirs, fs, outBucket, pending, log,
           stageExit, runs, device_name>>

vars == <<hvars, svars, doc>>

(***************************************************************************)
(* Bounds of the model.                                                    *)
(***************************************************************************)
MaxFiles == 2          \* largest --num-files
MaxTimeout == 11       \* largest --timeout
MaxListTime == 1       \* longest duration of one list_objects_v2 call
Epoch == 7             \* time.time() when the harness starts

NoExit == 0 - 1
LF == "LF"
CR == "CR"

(***************************************************************************)
(* Python values that cross the HTTP boundary.                             *)
(***************************************************************************)
PyNone == [type |-> "None"]
PyStr(s) == [type |-> "str", s |-> s]
PyDict(f) == [type |-> "dict", fields |-> f]
PyList == [type |-> "list"]
NotJson == [type |-> "notjson"]

\* dict.get(key): the value, or None when the key is absent
DictGet(d, key) ==
    IF key \in DOMAIN d.fields THEN PyStr(d.fields[key]) ELSE PyNone

\* value[key] as the caller of trigger_processing writes it
Subscript(v, key) ==
    IF v.type = "dict" /\ key \in DOMAIN v.fields
    THEN PyStr(v.fields[key])
    ELSE [type |-> "TypeError"]

(***************************************************************************)
(* Sequences.                                                              *)
(***************************************************************************)
IsPrefix(p, s) ==
    /\ Len(p) <= Len(s)
    /\ \A i \in 1..Len(p) : s[i] = p[i]

\* Python's  sub in s  on strings: the positions where sub occurs in s
Occurrences(sub, s) ==
    { i \in 1..(Len(s) - Len(sub) + 1) :
        \A j \in 1..Len(sub) : s[i + j - 1] = sub[j] }

Contains(sub, s) ==
    \/ Len(sub) = 0
    \/ Occurrences(sub, s) # {}

\* str.endswith('/')
EndsWithSlash(key) == Len(key) > 0 /\ key[Len(key)] = "/"

(***************************************************************************)
(* Marker transforms of the three stages.                                  *)
(***************************************************************************)
PreMarker == <<"[Preprocessed at">>
GpuMarker == <<"[GPU Processed with">>
PostMarker == <<"[Postprocessed at">>

\* f"[Preprocessed at {ts}]\n{content}"
PreprocessTransform(content, ts) ==
    PreMarker \o <<" ", ts, "]", LF>> \o content

\* f"{content}\n[GPU Processed with {device_name} at {ts}]"
GpuTransform(content, dev, ts) ==
    content \o <<LF>> \o GpuMarker \o <<" ", dev, " at ", ts, "]">>

\* f"{content}\n[Postprocessed at {ts}]"
PostprocessTransform(content, ts) ==
    content \o <<LF>> \o PostMarker \o <<" ", ts, "]">>

(***************************************************************************)
(* Object keys of the test bucket.                                         *)
(***************************************************************************)
S3Prefix == <<"t">>
\* the name of the i-th fixture, test_doc_<i>.txt
DocName(i) == ToString(i)

\* f"{s3_prefix}/{file_path.name}"
InputKey(i) == S3Prefix \o <<"/", DocName(i)>>
\* f"{s3_prefix}/processed"
ProcessedPrefix(prefix) == prefix \o <<"/", "processed">>
OutputKey(i) == ProcessedPrefix(S3Prefix) \o <<"/", DocName(i)>>
DirMarkerKey == ProcessedPrefix(S3Prefix) \o <<"/">>

\* every key the bucket may hold, in the order S3 lists keys
\* ("t/processed/..." sorts before "t/test_doc_...")
KeyOrder ==
    <<DirMarkerKey>>
    \o [i \in 1..MaxFiles |-> OutputKey(i)]
    \o [i \in 1..MaxFiles |-> InputKey(i)]

AllKeys == { KeyOrder[i] : i \in 1..Len(KeyOrder) }
PipelineKeys == {DirMarkerKey} \cup { OutputKey(i) : i \in 1..MaxFiles }

(***************************************************************************)
(* The object store as the harness sees it.                                *)
(***************************************************************************)
\* s3.list_objects_v2(Bucket, Prefix): the keys that start with Prefix, in
\* key order; the response has no 'Contents' entry when no key matches,
\* which is the empty sequence here
ListObjects(b, prefix) ==
    SelectSeq(KeyOrder, LAMBDA k : k \in b /\ IsPrefix(prefix, k))

HasContents(resp) == Len(resp) > 0

\* [obj for obj in response['Contents'] if not obj['Key'].endswith('/')]
ProcessedFiles(contents) ==
    SelectSeq(contents, LAMBDA k : ~EndsWithSlash(k))

\* the fixture text written by create_test_files
FixtureText == <<"a", LF, "b">>
DeviceName == "gpu0"
Ts == "ts"

\* what an object under the processed prefix may hold when it is
\* downloaded: the output of any subset of the stages
StagedContent(pre, gpu, post) ==
    LET c1 == IF pre THEN PreprocessTransform(FixtureText, Ts) ELSE FixtureText
        c2 == IF gpu THEN GpuTransform(c1, DeviceName, Ts) ELSE c1
    IN  IF post THEN PostprocessTransform(c2, Ts) ELSE c2

ObjectContents ==
    { StagedContent(TRUE, TRUE, TRUE), StagedContent(FALSE, TRUE, TRUE),
      StagedContent(TRUE, FALSE, TRUE), StagedContent(TRUE, TRUE, FALSE),
      StagedContent(FALSE, FALSE, FALSE) }

\* a check that is satisfied by any one of the markers
HasAllMarkers_AnyOne(content) ==
    \/ Contains(PreMarker, content)
    \/ Contains(GpuMarker, content)
    \/ Contains(PostMarker, content)

\* the condition of test_pipeline.py line 119, negated
HasAllMarkers(content) ==
    /\ Contains(PreMarker, content)
    /\ Contains(GpuMarker, content)
    /\ Contains(PostMarker, content)

(***************************************************************************)
(* HTTP.                                                                   *)
(***************************************************************************)
BodyJob == PyDict([status |-> "processing", job_id |-> "test-job-123"])
BodyArn == PyDict([executionArn |-> "arn-1"])
Bodies == {BodyJob, BodyArn, PyList, NotJson}
StatusCodes == {200, 202, 304, 404, 503}

HttpOutcomes ==
    {[kind |-> "network_error"]}
    \cup { [kind |-> "response", status |-> s, body |-> b] :
             s \in StatusCodes, b \in Bodies }

NoResponse == [kind |-> "none"]

\* requests' Response.raise_for_status: HTTPError for 4xx and 5xx
RaisesForStatus(status) == 400 <= status /\ status < 600

\* trigger_processing: "exit" when an exception ends the process (the
\* RequestException handler calls sys.exit(1); any other exception is
\* uncaught and ends the interpreter with status 1), else the value returned
TriggerResult(o) ==
    IF o.kind = "network_error" THEN [exit |-> TRUE, value |-> PyNone]
    ELSE IF RaisesForStatus(o.status) THEN [exit |-> TRUE, value |-> PyNone]
    ELSE IF o.body.type # "dict" THEN [exit |-> TRUE, value |-> PyNone]
    ELSE [exit |-> FALSE, value |-> DictGet(o.body, "executionArn")]

(***************************************************************************)
(* Files, as the stages read and write them.                               *)
(***************************************************************************)
MaxDocs == 2           \* objects under the input prefix of the source bucket
MaxRuns == 3           \* stage processes started in one behaviour
MaxTextLen == 2        \* longest document text of the transform check

\* open(path, 'r').read(): text mode with universal newlines, "\r\n" and a
\* lone "\r" both come back as "\n"
RECURSIVE ReadText(_)
ReadText(bytes) ==
    IF bytes = <<>> THEN <<>>
    ELSE IF bytes[1] = CR
         THEN IF Len(bytes) >= 2 /\ bytes[2] = LF
              THEN <<LF>> \o ReadText(SubSeq(bytes, 3, Len(bytes)))
              ELSE <<LF>> \o ReadText(Tail(bytes))
         ELSE <<bytes[1]>> \o ReadText(Tail(bytes))

\* open(path, 'w').write(text): "\n" is written as os.linesep, which is
\* "\n" on the POSIX hosts the stages run on (/efs, /tmp)
WriteText(text) == text

\* the bytes a stage writes for a file holding `bytes`
StageOutput(st, bytes, dev, ts) ==
    LET content == ReadText(bytes) IN
    WriteText(
        CASE st = "preprocess" -> PreprocessTransform(content, ts)
          [] st = "gpu" -> GpuTransform(content, dev, ts)
          [] st = "postprocess" -> PostprocessTransform(content, ts))

TmpInput == "/tmp/input"
EfsPreprocessed == "/efs/preprocessed"
EfsProcessed == "/efs/processed"
TmpOutput == "/tmp/output"
Dirs == {TmpInput, EfsPreprocessed, EfsProcessed, TmpOutput}

InputDir(st) ==
    CASE st = "preprocess" -> TmpInput
      [] st = "gpu" -> EfsPreprocessed
      [] st = "postprocess" -> EfsProcessed

OutputDir(st) ==
    CASE st = "preprocess" -> EfsPreprocessed
      [] st = "gpu" -> EfsProcessed
      [] st = "postprocess" -> TmpOutput

EmptyDir == [n \in {} |-> <<>>]

WriteFile(f, name, bytes) ==
    [n \in DOMAIN f \cup {name} |-> IF n = name THEN bytes ELSE f[n]]

\* the orders in which Path(dir).glob('*') may yield the files of a directory
GlobOrders(f) ==
    LET n == Cardinality(DOMAIN f) IN
    { o \in [1..n -> DOMAIN f] : \A i, j \in 1..n : o[i] = o[j] => i = j }

\* the value of INPUT_DIRECTORY and of OUTPUT_PREFIX when they are set
SrcPrefix == <<"in">>
OutPrefix == <<"out">>
SrcMarkerKey == SrcPrefix \o <<"/">>
SrcKey(i) == SrcPrefix \o <<"/", DocName(i)>>
SrcKeyOrder == <<SrcMarkerKey>> \o [i \in 1..MaxDocs |-> SrcKey(i)]
SrcKeys == { SrcKeyOrder[i] : i \in 1..Len(SrcKeyOrder) }

\* os.path.basename(obj['Key'])
Basename(key) == IF EndsWithSlash(key) THEN "" ELSE key[Len(key)]

\* f"{output_dir}/{file_path.name}"
UploadKey(name) == OutPrefix \o <<"/", name>>

\* s3_client.list_objects_v2(Bucket=bucket, Prefix=directory)
ListSource(b) ==
    SelectSeq(SrcKeyOrder, LAMBDA k : k \in DOMAIN b /\ IsPrefix(SrcPrefix, k))

\* what a source object may hold
StageTexts == { <<"a", CR, LF, "b">> }

SourceBuckets ==
    { b \in UNION { [K -> StageTexts \cup {<<>>}] : K \in SUBSET SrcKeys } :
        \A k \in DOMAIN b : EndsWithSlash(k) <=> b[k] = <<>> }

\* os.environ.get(name): None when unset; "" and None are both falsy
EnvValues == {"unset", "empty", "set"}
Truthy(v) == v = "set"

\* a check that takes the configuration as present when any one value is
ConfigPresent_AnyOne(e) == \E n \in DOMAIN e : Truthy(e[n])

\* all([...]) of main
ConfigPresent(e) == \A n \in DOMAIN e : Truthy(e[n])

NoEnv == [n \in {} |-> "unset"]

\* the stage processes before any of them has started
StageIdle ==
    /\ stage = "none"
    /\ spc = "idle"
    /\ env = NoEnv
    /\ srcBucket = EmptyDir
    /\ dirs = {}
    /\ fs = [d \in Dirs |-> EmptyDir]
    /\ outBucket = EmptyDir
    /\ pending = <<>>
    /\ log = <<>>
    /\ stageExit = NoExit
    /\ runs = 0
    /\ device_name = "none"

\* /efs outlives the processes: /efs/preprocessed may hold a file that an
\* earlier execution of the pipeline, over another object, left there.  The
\* case is taken up where the input prefix holds the first object alone
LeftoverName == DocName(MaxDocs)
LeftoverBytes ==
    StageOutput("preprocess", <<"a", CR, LF, "b">>, "none", ToString(0))
InitialEfsPreprocessed(b) ==
    {EmptyDir} \cup
    IF { k \in DOMAIN b : ~EndsWithSlash(k) } = {SrcKey(1)}
    THEN { [n \in {LeftoverName} |-> LeftoverBytes] }
    ELSE {}

NoDoc == [name |-> "", original |-> <<>>, bytes |-> <<>>, applied |-> <<>>]

(***************************************************************************)
(* The harness: main of test_pipeline.py.                                  *)
(***************************************************************************)
PollInterval == 10

Terminal == {"PASSED", "FAILED"}

HarnessFail ==
    /\ hstate' = "FAILED"
    /\ exitCode' = 1

Init ==
    /\ hstate = "CREATING_FIXTURES"
    /\ exitCode = NoExit
    /\ num_files \in 0..MaxFiles
    /\ timeout \in 0..MaxTimeout
    /\ bucket \in SUBSET PipelineKeys
    /\ uploaded_count = 0
    /\ posts = 0
    /\ response = NoResponse
    /\ execution_arn = PyNone
    /\ now = Epoch
    /\ start_time = 0
    /\ listing = <<>>
    /\ listedPrefix = <<>>
    /\ checks = <<>>
    /\ slept = <<>>
    /\ lastListTime = 0
    /\ wpc = "idle"
    /\ waitResult = "none"
    /\ vidx = 0
    /\ downloaded = <<>>
    /\ verifyResult = "none"
    /\ StageIdle
    /\ doc = NoDoc

\* create_test_files: an exception (the directory cannot be made, a file
\* cannot be written) is not caught and ends the process with status 1
CreateFixtures ==
    /\ hstate = "CREATING_FIXTURES"
    /\ \E ok \in BOOLEAN :
         IF ok THEN hstate' = "UPLOADING" /\ exitCode' = exitCode
         ELSE HarnessFail
    /\ UNCHANGED <<svars, doc>>
    /\ UNCHANGED <<num_files, timeout, bucket, uploaded_count, posts, response,
                   execution_arn, now, start_time, listing, listedPrefix,
                   checks, slept, lastListTime, wpc, waitResult, vidx,
                   downloaded, verifyResult>>

\* upload_test_files: the first k files are uploaded; k = num_files unless
\* upload_file raises, which is not caught and ends the process with status 1
UploadFixtures ==
    /\ hstate = "UPLOADING"
    /\ \E k \in 0..num_files :
         /\ bucket' = bucket \cup { InputKey(i) : i \in 1..k }
         /\ IF k = num_files
            THEN /\ uploaded_count' = k
                 /\ hstate' = "TRIGGERING"
                 /\ exitCode' = exitCode
            ELSE /\ uploaded_count' = uploaded_count
                 /\ HarnessFail
    /\ UNCHANGED <<svars, doc>>
    /\ UNCHANGED <<num_files, timeout, posts, response, execution_arn, now,
                   start_time, listing, listedPrefix, checks, slept,
                   lastListTime, wpc, waitResult, vidx, downloaded,
                   verifyResult>>

\* main step 3: execution_arn = trigger_processing(api_url, s3_prefix)
Trigger ==
    /\ hstate = "TRIGGERING"
    /\ \E o \in HttpOutcomes :
         LET r == TriggerResult(o) IN
         /\ posts' = posts + 1
         /\ response' = o
         /\ IF r.exit
            THEN /\ HarnessFail
                 /\ execution_arn' = execution_arn
            ELSE /\ hstate' = "POLLING"
                 /\ exitCode' = exitCode
                 /\ execution_arn' = r.value
    /\ UNCHANGED <<svars, doc>>
    /\ UNCHANGED <<num_files, timeout, bucket, uploaded_count, now, start_time,
                   listing, listedPrefix, checks, slept, lastListTime, wpc,
                   waitResult, vidx, downloaded, verifyResult>>

\* wait_for_results up to the loop: start_time = time.time()
WaitEnter ==
    /\ hstate = "POLLING"
    /\ wpc = "idle"
    /\ start_time' = now
    /\ wpc' = "loop"
    /\ UNCHANGED <<svars, doc>>
    /\ UNCHANGED <<hstate, exitCode, num_files, timeout, bucket, uploaded_count,
                   posts, response, execution_arn, now, listing, listedPrefix,
                   checks, slept, lastListTime, waitResult, vidx, downloaded,
                   verifyResult>>

\* a loop that still runs when exactly timeout has elapsed
LoopCondition_Inclusive == (now - start_time) <= timeout

\* while (time.time() - start_time) < timeout
LoopCondition == (now - start_time) < timeout

\* a count that includes the directory keys
CountMet_NoDirFilter(resp, n) ==
    /\ HasContents(resp)
    /\ Len(resp) >= n

\* len(processed_files) >= num_files, under  if 'Contents' in response
CountMet(resp, n) ==
    /\ HasContents(resp)
    /\ Len(ProcessedFiles(resp)) >= n

\* one iteration of the polling loop: list, count, then return or sleep.
\* The list call takes d time units and may raise; main exits with status 1
\* when wait_for_results returns False
WaitCheck ==
    /\ hstate = "POLLING"
    /\ wpc = "loop"
    /\ LoopCondition
    /\ \E d \in 0..MaxListTime, raises \in BOOLEAN :
         LET prefix == ProcessedPrefix(S3Prefix)
             resp == ListObjects(bucket, prefix)
             met == CountMet(resp, uploaded_count)
         IN
         /\ listedPrefix' = prefix
         /\ lastListTime' = d
         /\ IF raises
            THEN /\ checks' = Append(checks, [result |-> "error", keys |-> 0, count |-> 0])
                 /\ now' = now + d
                 /\ waitResult' = "False"
                 /\ wpc' = "returned"
                 /\ HarnessFail
                 /\ UNCHANGED <<listing, slept>>
            ELSE /\ listing' = resp
                 /\ checks' = Append(checks,
                        [result |-> IF met THEN "met" ELSE "unmet",
                         keys |-> Len(resp),
                         count |-> Len(ProcessedFiles(resp))])
                 /\ IF met
                    THEN /\ now' = now + d
                         /\ waitResult' = "True"
                         /\ wpc' = "returned"
                         /\ hstate' = "VERIFYING"
                         /\ UNCHANGED <<exitCode, slept>>
                    ELSE /\ now' = now + d + PollInterval
                         /\ slept' = Append(slept, PollInterval)
                         /\ UNCHANGED <<hstate, exitCode, waitResult, wpc>>
    /\ UNCHANGED <<svars, doc>>
    /\ UNCHANGED <<num_files, timeout, bucket, uploaded_count, posts, response,
                   execution_arn, start_time, vidx, downloaded, verifyResult>>

\* a main that goes on to verify after wait_for_results returned False
WaitTimeout_Continues ==
    /\ hstate = "POLLING"
    /\ wpc = "loop"
    /\ ~LoopCondition
    /\ waitResult' = "False"
    /\ wpc' = "returned"
    /\ hstate' = "VERIFYING"
    /\ UNCHANGED <<svars, doc>>
    /\ UNCHANGED <<exitCode, num_files, timeout, bucket, uploaded_count, posts,
                   response, execution_arn, now, start_time, listing,
                   listedPrefix, checks, slept, lastListTime, vidx, downloaded,
                   verifyResult>>

\* the loop condition fails: wait_for_results returns False, main exits 1
WaitTimeout ==
    /\ hstate = "POLLING"
    /\ wpc = "loop"
    /\ ~LoopCondition
    /\ waitResult' = "False"
    /\ wpc' = "returned"
    /\ HarnessFail
    /\ UNCHANGED <<svars, doc>>
    /\ UNCHANGED <<num_files, timeout, bucket, uploaded_count, posts, response,
                   execution_arn, now, start_time, listing, listedPrefix,
                   checks, slept, lastListTime, vidx, downloaded, verifyResult>>

\* verify_results up to the loop: list the processed prefix.  An exception
\* of the list call, or a response without 'Contents', returns False
VerifyEnter ==
    /\ hstate = "VERIFYING"
    /\ vidx = 0
    /\ \E raises \in BOOLEAN :
         LET prefix == ProcessedPrefix(S3Prefix)
             resp == ListObjects(bucket, prefix)
         IN
         /\ listedPrefix' = prefix
         /\ IF raises \/ ~HasContents(resp)
            THEN /\ verifyResult' = "False"
                 /\ HarnessFail
                 /\ UNCHANGED <<listing, vidx>>
            ELSE /\ listing' = resp
                 /\ vidx' = 1
                 /\ UNCHANGED <<hstate, exitCode, verifyResult>>
    /\ UNCHANGED <<svars, doc>>
    /\ UNCHANGED <<num_files, timeout, bucket, uploaded_count, posts, response,
                   execution_arn, now, start_time, checks, slept, lastListTime,
                   wpc, waitResult, downloaded>>

\* one iteration of  for obj in response['Contents']: skip a directory key,
\* else download the object and look for the markers.  The object holds
\* whatever the pipeline wrote last; download_file may raise
VerifyFile ==
    /\ hstate = "VERIFYING"
    /\ vidx >= 1
    /\ vidx <= Len(listing)
    /\ LET key == listing[vidx] IN
       IF EndsWithSlash(key)
       THEN /\ vidx' = vidx + 1
            /\ UNCHANGED <<hstate, exitCode, downloaded, verifyResult>>
       ELSE \E raises \in BOOLEAN, content \in ObjectContents :
              IF raises
              THEN /\ verifyResult' = "False"
                   /\ HarnessFail
                   /\ UNCHANGED <<vidx, downloaded>>
              ELSE /\ downloaded' = Append(downloaded, <<key, content>>)
                   /\ IF ~HasAllMarkers(content)
                      THEN /\ verifyResult' = "False"
                           /\ HarnessFail
                           /\ vidx' = vidx
                      ELSE /\ vidx' = vidx + 1
                           /\ UNCHANGED <<hstate, exitCode, verifyResult>>
    /\ UNCHANGED <<svars, doc>>
    /\ UNCHANGED <<num_files, timeout, bucket, uploaded_count, posts, response,
                   execution_arn, now, start_time, listing, listedPrefix,
                   checks, slept, lastListTime, wpc, waitResult>>

\* the loop is exhausted: verify_results returns True and main returns
VerifyDone ==
    /\ hstate = "VERIFYING"
    /\ vidx > Len(listing)
    /\ verifyResult' = "True"
    /\ hstate' = "PASSED"
    /\ exitCode' = 0
    /\ UNCHANGED <<svars, doc>>
    /\ UNCHANGED <<num_files, timeout, bucket, uploaded_count, posts, response,
                   execution_arn, now, start_time, listing, listedPrefix,
                   checks, slept, lastListTime, wpc, waitResult, vidx,
                   downloaded>>

\* the pipeline (or anyone else) puts an object into the bucket while the
\* harness runs
PipelineWrites ==
    /\ hstate \notin Terminal
    /\ \E k \in PipelineKeys \ bucket : bucket' = bucket \cup {k}
    /\ UNCHANGED <<svars, doc>>
    /\ UNCHANGED <<hstate, exitCode, num_files, timeout, uploaded_count, posts,
                   response, execution_arn, now, start_time, listing,
                   listedPrefix, checks, slept, lastListTime, wpc, waitResult,
                   vidx, downloaded, verifyResult>>

Next ==
    \/ CreateFixtures
    \/ UploadFixtures
    \/ Trigger
    \/ WaitEnter
    \/ WaitCheck
    \/ WaitTimeout
    \/ VerifyEnter
    \/ VerifyFile
    \/ VerifyDone
    \/ PipelineWrites

Spec == Init /\ [][Next]_vars

(***************************************************************************)
(* Claims about the harness, checked under Spec.                           *)
(***************************************************************************)
Elapsed == now - start_time

LastCheck == checks[Len(checks)]

\* the keys of the bucket a check must count: under '<s3_prefix>/processed'
\* and not ending in '/'
CountableKeys ==
    { k \in bucket :
        /\ IsPrefix(<<"t", "/", "processed">>, k)
        /\ k[Len(k)] # "/" }

C1_CheckStep ==
    (checks' # checks /\ checks'[Len(checks')].result # "error") =>
        /\ listedPrefix' = <<"t", "/", "processed">>
        /\ checks'[Len(checks')].count = Cardinality(CountableKeys)
        /\ checks'[Len(checks')].keys =
             Cardinality({ k \in bucket : IsPrefix(<<"t", "/", "processed">>, k) })

C1_State ==
    /\ \A i \in 1..Len(slept) : slept[i] = 10
    /\ Len(slept) = Cardinality({ i \in 1..Len(checks) : checks[i].result = "unmet" })
    /\ \A i \in 1..Len(checks) :
         /\ checks[i].result = "unmet" =>
              (checks[i].count < uploaded_count \/ checks[i].keys = 0)
         /\ checks[i].result = "met" =>
              (checks[i].count >= uploaded_count /\ checks[i].keys > 0)
         /\ i < Len(checks) => checks[i].result = "unmet"
    /\ waitResult = "True" =>
         /\ checks # <<>>
         /\ LastCheck.result = "met"
         /\ Len(slept) = Len(checks) - 1
         /\ hstate \in {"VERIFYING", "PASSED", "FAILED"}
    /\ waitResult = "False" =>
         /\ hstate = "FAILED"
         /\ \/ (checks # <<>> /\ LastCheck.result = "error")
            \/ /\ Elapsed >= timeout
               /\ \A i \in 1..Len(checks) : checks[i].result = "unmet"

\* C1 (amended): every check lists '<s3_prefix>/processed' and counts the keys
\* not ending in '/'; wait_for_results returns success at the first check
\* whose listing holds at least one key and whose count is >= num_files, without
\* sleeping after it; it returns failure only if the timeout elapses before
\* any check succeeded or a list call raises; after every unsuccessful check
\* it sleeps exactly 10 time units.
C1_PollingContract == [][C1_CheckStep]_vars /\ []C1_State

\* C1 as claimed: a check that ends unmet counted fewer than num_files keys,
\* and failure is returned only after the timeout has elapsed.
C1_AsClaimed ==
    /\ \A i \in 1..Len(checks) :
         checks[i].result = "unmet" => checks[i].count < uploaded_count
    /\ waitResult = "False" => Elapsed >= timeout

\* success at the second check, after one unsuccessful check and one sleep
C1_Witness ==
    /\ waitResult = "True"
    /\ Len(checks) = 2
    /\ slept = <<10>>

\* C2 (amended): for every timeout T >= 0, when the count is never reached
\* and no list call raises, wait_for_results returns failure at an elapsed
\* time (sleeps plus list calls) of at least T and less than T + 10 + the
\* duration of the last list call; a list call that raises returns failure
\* at once, possibly before T; the number of checks is at most ceil(T / 10),
\* so it never polls forever.
C2_TimeoutWindow ==
    /\ (waitResult = "False" /\ (checks = <<>> \/ LastCheck.result # "error")) =>
         /\ Elapsed >= timeout
         /\ checks = <<>> => Elapsed = 0
         /\ checks # <<>> => Elapsed < timeout + 10 + lastListTime
    /\ checks # <<>> => (Len(checks) - 1) * 10 < timeout
    /\ (hstate = "POLLING" /\ wpc = "loop") => ENABLED (WaitCheck \/ WaitTimeout)

\* C2 as claimed: failure is returned no earlier than T and no later than
\* T + 10.
C2_AsClaimed ==
    waitResult = "False" => (Elapsed >= timeout /\ Elapsed <= timeout + 10)

\* a timeout after polling: failure with every check unmet
C2_Witness ==
    /\ waitResult = "False"
    /\ Len(checks) = 2
    /\ LastCheck.result = "unmet"

DownloadedKeys == [i \in 1..Len(downloaded) |-> downloaded[i][1]]

AllThree(content) ==
    /\ \E i \in 1..Len(content) : content[i] = "[Preprocessed at"
    /\ \E i \in 1..Len(content) : content[i] = "[GPU Processed with"
    /\ \E i \in 1..Len(content) : content[i] = "[Postprocessed at"

C6_AsClaimed ==
    /\ posts <= 1
    /\ (\/ response.kind = "network_error"
        \/ (response.kind = "response"
            /\ ~(response.status >= 200 /\ response.status <= 299))) =>
         /\ hstate = "FAILED"
         /\ exitCode = 1
         /\ wpc = "idle"
         /\ vidx = 0

Chain == <<"CREATING_FIXTURES", "UPLOADING", "TRIGGERING", "POLLING",
           "VERIFYING">>

C7_Step ==
    hstate' # hstate =>
        \/ \E i \in 1..4 : hstate = Chain[i] /\ hstate' = Chain[i + 1]
        \/ (hstate = "VERIFYING" /\ hstate' = "PASSED")
        \/ (\E i \in 1..5 : hstate = Chain[i]) /\ hstate' = "FAILED"

C7_State ==
    /\ hstate = "PASSED" =>
         (exitCode = 0 /\ waitResult = "True" /\ verifyResult = "True")
    /\ hstate = "FAILED" => exitCode = 1
    /\ hstate \notin {"PASSED", "FAILED"} => exitCode = 0 - 1
    /\ hstate = "VERIFYING" => (waitResult = "True" /\ posts = 1)
    /\ hstate = "POLLING" => posts = 1
    /\ waitResult = "False" =>
         (hstate = "FAILED" /\ vidx = 0 /\ verifyResult = "none"
            /\ downloaded = <<>>)
    /\ verifyResult = "False" => hstate = "FAILED"
    /\ (posts = 1 /\ wpc = "idle" /\ hstate # "POLLING") => hstate = "FAILED"

\* C7: main moves through CREATING_FIXTURES, UPLOADING, TRIGGERING, POLLING,
\* VERIFYING in that order, one step at a time; it ends PASSED with status 0
\* only after wait_for_results and then verify_results returned success; a
\* failure of the trigger, of the poll or of the verification ends it FAILED
\* with status 1 and no later state is entered.
C7_RunOrdering == [][C7_Step]_vars /\ []C7_State

\* a run that passed
C7_Witness ==
    /\ hstate = "PASSED"
    /\ Len(checks) = 2
    /\ Len(downloaded) = 2

\* C9 as claimed: after a 2xx response with a JSON object as body,
\* trigger_processing has returned that object, whose 'status' and 'job_id'
\* the caller can read.
C9_AsClaimed ==
    (/\ response.kind = "response"
     /\ response.status >= 200 /\ response.status <= 299
     /\ response.body.type = "dict"
     /\ hstate # "TRIGGERING") =>
        /\ execution_arn = response.body
        /\ \A f \in DOMAIN response.body.fields :
             Subscript(execution_arn, f) = PyStr(response.body.fields[f])

(***************************************************************************)
(* The stage processes.  One process runs at a time; /tmp and /efs are     *)
(* kept from one process to the next.                                      *)
(***************************************************************************)
\* the harness, not running
HarnessIdle ==
    /\ hstate = "CREATING_FIXTURES"
    /\ exitCode = NoExit
    /\ num_files = 0
    /\ timeout = 0
    /\ bucket = {}
    /\ uploaded_count = 0
    /\ posts = 0
    /\ response = NoResponse
    /\ execution_arn = PyNone
    /\ now = 0
    /\ start_time = 0
    /\ listing = <<>>
    /\ listedPrefix = <<>>
    /\ checks = <<>>
    /\ slept = <<>>
    /\ lastListTime = 0
    /\ wpc = "idle"
    /\ waitResult = "none"
    /\ vidx = 0
    /\ downloaded = <<>>
    /\ verifyResult = "none"

StageInit ==
    /\ HarnessIdle
    /\ doc = NoDoc
    /\ stage = "none"
    /\ spc = "idle"
    /\ env = NoEnv
    /\ srcBucket \in SourceBuckets
    /\ \E left \in InitialEfsPreprocessed(srcBucket) :
         /\ dirs = IF left = EmptyDir THEN {} ELSE {EfsPreprocessed}
         /\ fs = [d \in Dirs |-> IF d = EfsPreprocessed THEN left
                                  ELSE EmptyDir]
    /\ outBucket = EmptyDir
    /\ pending = <<>>
    /\ log = <<>>
    /\ stageExit = NoExit
    /\ runs = 0
    /\ device_name = "none"

Op(op, arg) == [op |-> op, arg |-> arg]

\* time.strftime(...) of the running process
Timestamp == ToString(runs)

\* sys.exit(code), or main returning (code 0)
StageExits(code) ==
    /\ spc' = "exited"
    /\ stageExit' = code

CanStart ==
    /\ spc \in {"idle", "exited"}
    /\ runs < MaxRuns

\* a new process: nothing logged, nothing pending
Fresh(st, e) ==
    /\ stage' = st
    /\ env' = e
    /\ runs' = runs + 1
    /\ log' = <<>>
    /\ pending' = <<>>

\* preprocess main, lines 92-107: read the environment, exit 1 when a
\* required value is missing, else make the S3 client (exit 1 on failure)
StartPreprocess ==
    /\ CanStart
    /\ \E sb \in EnvValues, dir \in EnvValues, clientOk \in BOOLEAN :
         LET e == [SOURCE_BUCKET |-> sb, INPUT_DIRECTORY |-> dir] IN
         /\ Fresh("preprocess", e)
         /\ IF ~ConfigPresent(e) \/ ~clientOk
            THEN StageExits(1)
            ELSE spc' = "download_list" /\ stageExit' = NoExit
    /\ UNCHANGED <<hvars, doc>>
    /\ UNCHANGED <<srcBucket, dirs, fs, outBucket, device_name>>

\* download_from_s3, lines 30-42: list the input prefix; an exception or a
\* response without 'Contents' returns False and main exits 1; else the
\* local directory is made
DownloadList ==
    /\ stage = "preprocess"
    /\ spc = "download_list"
    /\ \E raises \in BOOLEAN :
         LET resp == ListSource(srcBucket) IN
         IF raises \/ ~HasContents(resp)
         THEN /\ log' = Append(log, Op("list", "in"))
              /\ StageExits(1)
              /\ UNCHANGED <<dirs, pending>>
         ELSE /\ log' = log \o <<Op("list", "in"), Op("mkdir", TmpInput)>>
              /\ dirs' = dirs \cup {TmpInput}
              /\ pending' = resp
              /\ spc' = "download"
              /\ stageExit' = stageExit
    /\ UNCHANGED <<hvars, doc>>
    /\ UNCHANGED <<stage, env, srcBucket, fs, outBucket, runs, device_name>>

\* download_from_s3, lines 45-51: one iteration of the loop over Contents
DownloadObject ==
    /\ stage = "preprocess"
    /\ spc = "download"
    /\ pending # <<>>
    /\ LET key == Head(pending) IN
       IF EndsWithSlash(key)
       THEN /\ pending' = Tail(pending)
            /\ UNCHANGED <<fs, log, spc, stageExit>>
       ELSE \E raises \in BOOLEAN :
              /\ log' = Append(log, Op("download", Basename(key)))
              /\ IF raises
                 THEN /\ StageExits(1)
                      /\ UNCHANGED <<fs, pending>>
                 ELSE /\ fs' = [fs EXCEPT ![TmpInput] =
                                   WriteFile(@, Basename(key), srcBucket[key])]
                      /\ pending' = Tail(pending)
                      /\ UNCHANGED <<spc, stageExit>>
    /\ UNCHANGED <<hvars, doc>>
    /\ UNCHANGED <<stage, env, srcBucket, dirs, outBucket, runs, device_name>>

\* a stage function that removes the output directory of an earlier run
\* before making it again
FilesBegin_Recreate(st) ==
    /\ stage = st
    /\ \E raises \in BOOLEAN, order \in GlobOrders(fs[InputDir(st)]) :
         /\ log' = Append(log, Op("mkdir", OutputDir(st)))
         /\ IF raises
            THEN /\ StageExits(1)
                 /\ UNCHANGED <<dirs, fs, pending>>
            ELSE /\ dirs' = dirs \cup {OutputDir(st)}
                 /\ fs' = [fs EXCEPT ![OutputDir(st)] = EmptyDir]
                 /\ pending' = order
                 /\ spc' = "files"
                 /\ stageExit' = stageExit
    /\ UNCHANGED <<hvars, doc>>
    /\ UNCHANGED <<stage, env, srcBucket, outBucket, runs, device_name>>

\* the head of preprocess_files / process_files / postprocess_files: make the
\* output directory (an exception returns False and main exits 1) and start
\* the glob over the input directory, which yields nothing when the
\* directory does not exist
FilesBegin(st) ==
    /\ stage = st
    /\ \E raises \in BOOLEAN, order \in GlobOrders(fs[InputDir(st)]) :
         /\ log' = Append(log, Op("mkdir", OutputDir(st)))
         /\ IF raises
            THEN /\ StageExits(1)
                 /\ UNCHANGED <<dirs, pending>>
            ELSE /\ dirs' = dirs \cup {OutputDir(st)}
                 /\ pending' = order
                 /\ spc' = "files"
                 /\ stageExit' = stageExit
    /\ UNCHANGED <<hvars, doc>>
    /\ UNCHANGED <<stage, env, srcBucket, fs, outBucket, runs, device_name>>

\* a loop that logs the exception of one file and goes on with the next
ProcessFile_Isolated(st) ==
    /\ stage = st
    /\ spc = "files"
    /\ pending # <<>>
    /\ LET name == Head(pending) IN
       \E outcome \in {"ok", "read_error"} :
         /\ pending' = Tail(pending)
         /\ IF outcome = "read_error"
            THEN /\ log' = log \o <<Op("read", name), Op("file_error", name)>>
                 /\ fs' = fs
            ELSE /\ log' = log \o <<Op("read", name), Op("write", name)>>
                 /\ fs' = [fs EXCEPT ![OutputDir(st)] =
                             WriteFile(@, name,
                                 StageOutput(st, fs[InputDir(st)][name],
                                             device_name, Timestamp))]
    /\ UNCHANGED <<hvars, doc>>
    /\ UNCHANGED <<stage, env, srcBucket, dirs, outBucket, runs, device_name,
                   spc, stageExit>>

\* one iteration of the file loop: read the file, add the marker, write the
\* output file.  An exception while reading, or while writing (the output
\* file is then left truncated), returns False and main exits 1
ProcessFile(st) ==
    /\ stage = st
    /\ spc = "files"
    /\ pending # <<>>
    /\ LET name == Head(pending) IN
       \E outcome \in {"ok", "read_error", "write_error"} :
         CASE outcome = "read_error" ->
                /\ log' = log \o <<Op("read", name), Op("file_error", name)>>
                /\ StageExits(1)
                /\ UNCHANGED <<fs, pending>>
           [] outcome = "write_error" ->
                /\ log' = log \o <<Op("read", name), Op("write", name),
                                   Op("file_error", name)>>
                /\ fs' = [fs EXCEPT ![OutputDir(st)] = WriteFile(@, name, <<>>)]
                /\ StageExits(1)
                /\ UNCHANGED pending
           [] outcome = "ok" ->
                /\ log' = log \o <<Op("read", name), Op("write", name)>>
                /\ fs' = [fs EXCEPT ![OutputDir(st)] =
                            WriteFile(@, name,
                                StageOutput(st, fs[InputDir(st)][name],
                                            device_name, Timestamp))]
                /\ pending' = Tail(pending)
                /\ UNCHANGED <<spc, stageExit>>
    /\ UNCHANGED <<hvars, doc>>
    /\ UNCHANGED <<stage, env, srcBucket, dirs, outBucket, runs, device_name>>

\* preprocess main, lines 113-115, after download_from_s3 returned True
PreprocessFilesBegin ==
    /\ spc = "download"
    /\ pending = <<>>
    /\ FilesBegin("preprocess")

PreprocessFile ==
    /\ stage = "preprocess"
    /\ ProcessFile("preprocess")

\* the loop is exhausted: the stage function returns True and main returns
FilesDone(st) ==
    /\ stage = st
    /\ spc = "files"
    /\ pending = <<>>
    /\ StageExits(0)
    /\ UNCHANGED <<hvars, doc>>
    /\ UNCHANGED <<stage, env, srcBucket, dirs, fs, outBucket, pending, log,
                   runs, device_name>>

PreprocessDone ==
    /\ stage = "preprocess"
    /\ FilesDone("preprocess")

\* gpu main, lines 89-98: setup_gpu.  Without a GPU it returns a bare False,
\* the tuple assignment of main raises TypeError, and main's handler exits
\* 1; an exception inside setup_gpu gives (False, None) and main exits 1
StartGpu ==
    /\ CanStart
    /\ \E outcome \in {"ok", "no_gpu", "error"} :
         /\ stage' = "gpu"
         /\ env' = NoEnv
         /\ runs' = runs + 1
         /\ pending' = <<>>
         /\ log' = <<Op("setup_gpu", outcome)>>
         /\ IF outcome = "ok"
            THEN /\ device_name' = DeviceName
                 /\ spc' = "gpu_ready"
                 /\ stageExit' = NoExit
            ELSE /\ device_name' = "none"
                 /\ StageExits(1)
    /\ UNCHANGED <<hvars, doc>>
    /\ UNCHANGED <<srcBucket, dirs, fs, outBucket>>

\* main going on to process_files whatever load_model returned
GpuLoadModel_Unchecked ==
    /\ stage = "gpu"
    /\ spc = "gpu_ready"
    /\ \E ok \in BOOLEAN :
         /\ log' = Append(log, Op("load_model", IF ok THEN "ok" ELSE "error"))
         /\ spc' = "model_loaded"
         /\ stageExit' = stageExit
    /\ UNCHANGED <<hvars, doc>>
    /\ UNCHANGED <<stage, env, srcBucket, dirs, fs, outBucket, pending, runs,
                   device_name>>

\* gpu main, lines 100-102: load_model returns True, or False after an
\* exception, and main exits 1 on False
GpuLoadModel ==
    /\ stage = "gpu"
    /\ spc = "gpu_ready"
    /\ \E ok \in BOOLEAN :
         /\ log' = Append(log, Op("load_model", IF ok THEN "ok" ELSE "error"))
         /\ IF ok THEN spc' = "model_loaded" /\ stageExit' = stageExit
            ELSE StageExits(1)
    /\ UNCHANGED <<hvars, doc>>
    /\ UNCHANGED <<stage, env, srcBucket, dirs, fs, outBucket, pending, runs,
                   device_name>>

GpuFilesBegin ==
    /\ spc = "model_loaded"
    /\ FilesBegin("gpu")

GpuFile ==
    /\ stage = "gpu"
    /\ ProcessFile("gpu")

GpuDone ==
    /\ stage = "gpu"
    /\ FilesDone("gpu")

\* postprocess main, lines 82-97
StartPostprocess ==
    /\ CanStart
    /\ \E ob \in EnvValues, op \in EnvValues, clientOk \in BOOLEAN :
         LET e == [OUTPUT_BUCKET |-> ob, OUTPUT_PREFIX |-> op] IN
         /\ Fresh("postprocess", e)
         /\ IF ~ConfigPresent(e) \/ ~clientOk
            THEN StageExits(1)
            ELSE spc' = "client_ready" /\ stageExit' = NoExit
    /\ UNCHANGED <<hvars, doc>>
    /\ UNCHANGED <<srcBucket, dirs, fs, outBucket, device_name>>

PostprocessFilesBegin ==
    /\ spc = "client_ready"
    /\ FilesBegin("postprocess")

PostprocessFile ==
    /\ stage = "postprocess"
    /\ ProcessFile("postprocess")

\* postprocess_files returned True: upload_to_s3 starts its glob over
\* /tmp/output
UploadBegin ==
    /\ stage = "postprocess"
    /\ spc = "files"
    /\ pending = <<>>
    /\ \E order \in GlobOrders(fs[TmpOutput]) : pending' = order
    /\ spc' = "upload"
    /\ UNCHANGED <<hvars, doc>>
    /\ UNCHANGED <<stage, env, srcBucket, dirs, fs, outBucket, log, stageExit,
                   runs, device_name>>

\* upload_to_s3, lines 32-41: one file; an exception returns False, exit 1
UploadFile ==
    /\ stage = "postprocess"
    /\ spc = "upload"
    /\ pending # <<>>
    /\ LET name == Head(pending) IN
       \E raises \in BOOLEAN :
         /\ log' = Append(log, Op("upload", name))
         /\ IF raises
            THEN /\ StageExits(1)
                 /\ UNCHANGED <<outBucket, pending>>
            ELSE /\ outBucket' = WriteFile(outBucket, UploadKey(name),
                                           fs[TmpOutput][name])
                 /\ pending' = Tail(pending)
                 /\ UNCHANGED <<spc, stageExit>>
    /\ UNCHANGED <<hvars, doc>>
    /\ UNCHANGED <<stage, env, srcBucket, dirs, fs, runs, device_name>>

\* upload_to_s3 returned True: main returns
UploadDone ==
    /\ stage = "postprocess"
    /\ spc = "upload"
    /\ pending = <<>>
    /\ StageExits(0)
    /\ UNCHANGED <<hvars, doc>>
    /\ UNCHANGED <<stage, env, srcBucket, dirs, fs, outBucket, pending, log,
                   runs, device_name>>

StageNext ==
    \/ StartPreprocess
    \/ DownloadList
    \/ DownloadObject
    \/ PreprocessFilesBegin
    \/ PreprocessFile
    \/ PreprocessDone
    \/ StartGpu
    \/ GpuLoadModel
    \/ GpuFilesBegin
    \/ GpuFile
    \/ GpuDone
    \/ StartPostprocess
    \/ PostprocessFilesBegin
    \/ PostprocessFile
    \/ UploadBegin
    \/ UploadFile
    \/ UploadDone

StageSpec == StageInit /\ [][StageNext]_vars

(***************************************************************************)
(* One document through the three stage transforms, each stage reading     *)
(* the bytes the previous one wrote.                                       *)
(***************************************************************************)
RECURSIVE TextsUpTo(_)
TextsUpTo(n) ==
    IF n = 0 THEN {<<>>}
    ELSE LET shorter == TextsUpTo(n - 1) IN
         shorter \cup { Append(t, c) : t \in shorter, c \in {"a", "b", CR, LF} }

PipeInit ==
    /\ HarnessIdle
    /\ StageIdle
    /\ doc \in { [name |-> DocName(i), original |-> t, bytes |-> t,
                  applied |-> <<>>] :
                 i \in 1..MaxDocs, t \in TextsUpTo(MaxTextLen) }

\* the output file keeps the name of the input file and holds the stage's
\* output for its bytes
Apply(st) ==
    doc' = [doc EXCEPT !.bytes = StageOutput(st, doc.bytes, DeviceName, Ts),
                       !.applied = Append(doc.applied, st)]

PipePreprocess ==
    /\ doc.applied = <<>>
    /\ Apply("preprocess")
    /\ UNCHANGED <<hvars, svars>>

PipeGpu ==
    /\ doc.applied = <<"preprocess">>
    /\ Apply("gpu")
    /\ UNCHANGED <<hvars, svars>>

PipePostprocess ==
    /\ doc.applied = <<"preprocess", "gpu">>
    /\ Apply("postprocess")
    /\ UNCHANGED <<hvars, svars>>

PipeNext ==
    \/ PipePreprocess
    \/ PipeGpu
    \/ PipePostprocess

PipeSpec == PipeInit /\ [][PipeNext]_vars

(***************************************************************************)
(* Claims about the stages.                                                *)
(***************************************************************************)
\* C4 as claimed: after the three stages the file holds the original text
\* unchanged as a substring, and the three markers in stage order.
C4_AsClaimed ==
    doc.applied = <<"preprocess", "gpu", "postprocess">> =>
        /\ Contains(doc.original, doc.bytes)
        /\ \E i \in Occurrences(<<"[Preprocessed at">>, doc.bytes),
              j \in Occurrences(<<"[GPU Processed with">>, doc.bytes),
              k \in Occurrences(<<"[Postprocessed at">>, doc.bytes) :
                i < j /\ j < k

\* a required environment variable of the process is unset
RequiredUnset ==
    \/ /\ stage = "preprocess"
       /\ (env.SOURCE_BUCKET = "unset" \/ env.INPUT_DIRECTORY = "unset")
    \/ /\ stage = "postprocess"
       /\ (env.OUTPUT_BUCKET = "unset" \/ env.OUTPUT_PREFIX = "unset")

C5_State ==
    RequiredUnset =>
        /\ spc = "exited"
        /\ stageExit = 1
        /\ log = <<>>
        /\ pending = <<>>

C5_Step ==
    RequiredUnset' => UNCHANGED <<srcBucket, dirs, fs, outBucket>>

\* C5: a preprocess or postprocess process that finds a required environment
\* variable unset exits with status 1 at once: it lists, downloads and
\* uploads nothing, makes no directory and reads or writes no file.
C5_MissingConfig == []C5_State /\ [][C5_Step]_vars

\* postprocess started with OUTPUT_PREFIX unset while /efs/processed holds
\* files it would have read
C5_Witness ==
    /\ stage = "postprocess"
    /\ env.OUTPUT_BUCKET = "set"
    /\ env.OUTPUT_PREFIX = "unset"
    /\ stageExit = 1
    /\ DOMAIN fs[EfsProcessed] # {}

\* C8 as claimed: once preprocess has listed an input prefix that holds no
\* key other than directory markers, it has exited with status 1 and
\* preprocess_files has touched no file.
C8_AsClaimed ==
    (/\ stage = "preprocess"
     /\ \E i \in 1..Len(log) : log[i].op = "list"
     /\ \A k \in DOMAIN srcBucket :
          IsPrefix(<<"in">>, k) => k[Len(k)] = "/") =>
        /\ spc = "exited"
        /\ stageExit = 1
        /\ \A i \in 1..Len(log) : log[i].op \notin {"read", "write"}

FileErrors == { i \in 1..Len(log) : log[i].op = "file_error" }

C10_State ==
    /\ \A i \in FileErrors : i = Len(log)
    /\ FileErrors # {} =>
         /\ spc = "exited"
         /\ stageExit = 1
         /\ \A i \in 1..Len(log) : log[i].op # "upload"
    /\ \A i, j \in 1..Len(log) :
         (i < j /\ log[i].op = "read" /\ log[j].op = "read") =>
            log[i].arg # log[j].arg

C10_Step ==
    (FileErrors # {} /\ runs' = runs) => UNCHANGED <<fs, outBucket, dirs, log>>

\* C10: in every stage an exception while one file is read or written ends
\* the batch: it is the last operation of the process, no other file is
\* read or written after it, no file is read twice, nothing is uploaded,
\* and the process has exited with status 1.
C10_FailFastBatch == []C10_State /\ [][C10_Step]_vars

\* postprocess fails on the first of two files: the second is never read
\* and nothing is uploaded
C10_Witness ==
    /\ stage = "postprocess"
    /\ spc = "exited"
    /\ stageExit = 1
    /\ Len(pending) = 2
    /\ FileErrors # {}
    /\ Len(log) = 3

\* the operations process_files performs on the file system
FileOps == {"mkdir", "read", "write", "file_error"}

GpuFileOps == { i \in 1..Len(log) : log[i].op \in FileOps }

\* setup_gpu or load_model of the running gpu process did not succeed
GpuNotReady ==
    /\ stage = "gpu"
    /\ \E i \in 1..Len(log) :
         \/ log[i].op = "setup_gpu" /\ log[i].arg # "ok"
         \/ log[i].op = "load_model" /\ log[i].arg # "ok"

C11_State ==
    stage = "gpu" =>
        /\ \A i \in GpuFileOps :
             /\ i > 2
             /\ log[1] = Op("setup_gpu", "ok")
             /\ log[2] = Op("load_model", "ok")
             /\ device_name = DeviceName
        /\ GpuNotReady =>
             /\ spc = "exited"
             /\ stageExit = 1
             /\ GpuFileOps = {}
             /\ pending = <<>>

C11_Step ==
    GpuNotReady' => UNCHANGED <<dirs, fs, srcBucket, outBucket>>

\* C11: in every run of the gpu process, setup_gpu and then load_model have
\* both succeeded before process_files makes the output directory or reads
\* the first file; when there is no GPU, or setup_gpu or load_model fails,
\* the process exits with status 1 without entering process_files: it reads
\* no file and creates no output file or directory.
C11_GpuGating == []C11_State /\ [][C11_Step]_vars

\* the gpu process stopped at load_model while /efs/preprocessed held files
\* and /efs/processed did not exist
C11_Witness ==
    /\ stage = "gpu"
    /\ log = <<Op("setup_gpu", "ok"), Op("load_model", "error")>>
    /\ stageExit = 1
    /\ DOMAIN fs[EfsPreprocessed] # {}
    /\ EfsProcessed \notin dirs

StageNames == {"preprocess", "gpu", "postprocess"}

\* the writes of the running process that no exception cut short
CompletedWrites ==
    { i \in 1..Len(log) :
        /\ log[i].op = "write"
        /\ ~(i < Len(log) /\ log[i + 1].op = "file_error") }

\* the output file holds the annotation, by the running process, of the
\* input file of the same name
Annotated(name) ==
    /\ name \in DOMAIN fs[OutputDir(stage)]
    /\ fs[OutputDir(stage)][name] =
         StageOutput(stage, fs[InputDir(stage)][name], device_name, Timestamp)

\* the next step of the running process is the mkdir of its file loop
AtFilesBegin ==
    \/ stage = "preprocess" /\ spc = "download" /\ pending = <<>>
    \/ stage = "gpu" /\ spc = "model_loaded"
    \/ stage = "postprocess" /\ spc = "client_ready"

FilesBeginSucceeds ==
    /\ \/ PreprocessFilesBegin
       \/ GpuFilesBegin
       \/ PostprocessFilesBegin
    /\ spc' = "files"

C12_State ==
    /\ (AtFilesBegin /\ OutputDir(stage) \in dirs) => ENABLED FilesBeginSucceeds
    /\ \A i \in CompletedWrites : Annotated(log[i].arg)
    /\ (stage \in StageNames /\ spc = "exited" /\ stageExit = 0) =>
         \A name \in DOMAIN fs[InputDir(stage)] : Annotated(name)

C12_Step ==
    /\ dirs \subseteq dirs'
    /\ fs' # fs =>
         \A d \in {EfsPreprocessed, EfsProcessed, TmpOutput} :
            \A name \in DOMAIN fs[d] :
               /\ name \in DOMAIN fs'[d]
               /\ fs'[d][name] # fs[d][name] =>
                    /\ spc = "files"
                    /\ d = OutputDir(stage)
                    /\ name \in DOMAIN fs[InputDir(stage)]

\* C12: the output directory of a stage is made when absent and never
\* cleared.  When it exists already the mkdir of the file loop can still
\* succeed; no step ever removes a directory or an output file; an output
\* file changes only in the file loop of the stage that owns the directory
\* and only when the input directory holds a file of its name; and each file
\* the loop has written, all of them once the process has exited with
\* status 0, holds the annotation made by this run.  Runs repeat in any
\* order.
C12_OutputKept == []C12_State /\ [][C12_Step]_vars

\* preprocess has run, gpu has run, and preprocess has run again to the end:
\* the file left by an earlier execution, which the input directory does
\* not hold, is as it was, and the output of the first run is replaced
C12_Witness ==
    /\ stage = "preprocess"
    /\ runs = 3
    /\ stageExit = 0
    /\ LeftoverName \notin DOMAIN fs[TmpInput]
    /\ LeftoverName \in DOMAIN fs[EfsPreprocessed]
    /\ fs[EfsPreprocessed][LeftoverName] = LeftoverBytes
    /\ \E name \in DOMAIN fs[TmpInput] :
         /\ name \in DOMAIN fs[EfsProcessed]
         /\ fs[EfsPreprocessed][name] =
              StageOutput("preprocess", fs[TmpInput][name], "none", "3")

====
